---- MODULE Spec2Model ----
(***************************************************************************)
(* Model of the message feed service: the HTTP handlers of api/api.go      *)
(* (listMessages, createMessage, createReaction), the Redis recency cache  *)
(* (ListMessages, InsertMessage, ListReactions, InsertReaction,            *)
(* evictOldest) and the Postgres store (ListMessages, InsertMessage,       *)
(* InsertReaction).                                                        *)
(*                                                                         *)
(* Every Redis command and every SQL statement is one atomic step; the     *)
(* handlers of concurrent requests interleave between those steps.  A      *)
(* command may fail (transport error); the number of injected failures is  *)
(* bounded by MaxFaults.                                                   *)
(*                                                                         *)
(* Identifiers are positive integers (fixed-width UUIDs compared           *)
(* lexicographically), the empty string is EmptyID.  Redis keys            *)
(* "messages:<id>" are represented by <id>, the key "messages:<id>:        *)
(* reactions:<rid>" by the pair (msg, member).  Time is counted in ticks.  *)
(***************************************************************************)
EXTENDS Integers, Sequences, FiniteSets, TLC

\* ---------------------------------------------------------------- constants
maxSize == 10
pageSize == 10

StatusOK == 200
StatusCreated == 201
StatusInternalServerError == 500

\* zero values of Go's string and time.Time
EmptyID == 0
ZeroTime == 0

\* ------------------------------------------------------------------- bounds
\* messages already in the store (and mirrored) when the service starts
InitFull == 20
\* messages, reactions created during a run
MaxNewMsgs == 2
MaxNewReacts == 1
\* failed Redis / SQL calls during a run
MaxFaults == 1
\* ticks of the application clock during a run
MaxTicks == 1

InitSizes == {0, InitFull}
\* the concurrent request handlers; every one serves POST /messages, the
\* handlers in Readers also serve GET /messages and POST .../reactions
Procs == {1, 2}
Readers == {1}
\* the `page` query parameter
Pages == 0 .. 2
\* store clock minus application clock
Skews == {0, 1}
\* the single request body used for every creation
TheText == "hello"
TheUser == "test"
TheType == "like"
TheScore == 1

FaultKinds == {"db", "tx", "evread", "zrem", "del", "cacheread"}

Min(a, b) == IF a < b THEN a ELSE b
Max(a, b) == IF a > b THEN a ELSE b

RECURSIVE Reverse(_)
Reverse(s) == IF s = <<>> THEN <<>> ELSE Reverse(Tail(s)) \o <<Head(s)>>

Range(s) == {s[i] : i \in DOMAIN s}

\* ------------------------------------------------------------- sorted sets
\* A Redis sorted set is a set of [member, score]; members are unique.
ZLess(a, b) ==
    \/ a.score < b.score
    \/ a.score = b.score /\ a.member < b.member

ZMin(z) == CHOOSE a \in z : \A b \in z \ {a} : ZLess(a, b)

RECURSIVE ZAsc(_)
\* the entries of z in ascending (score, member) order
ZAsc(z) ==
    IF z = {} THEN <<>>
    ELSE LET a == ZMin(z) IN <<a>> \o ZAsc(z \ {a})

ZMembers(s) == [i \in DOMAIN s |-> s[i].member]

\* ZADD key score member
ZAdd(z, member, score) ==
    {e \in z : e.member # member} \cup {[member |-> member, score |-> score]}

\* ZREM key member
ZRem(z, member) == {e \in z : e.member # member}

\* ZRANGE key start stop (by rank, negative ranks count from the end)
ZRange(z, start, stop) ==
    LET n == Cardinality(z)
        lo == IF start < 0 THEN Max(n + start, 0) ELSE start
        hi == IF stop < 0 THEN n + stop ELSE Min(stop, n - 1)
        s == ZAsc(z)
    IN  IF lo > hi \/ lo >= n THEN <<>>
        ELSE ZMembers(SubSeq(s, lo + 1, hi + 1))

\* ZRANGEBYSCORE key -inf max
ZRangeByScore(z, max) == ZMembers(ZAsc({e \in z : e.score <= max}))

\* ZREVRANGEBYSCORE key (max -inf: the entry scored max itself is left out
ZRevRangeByScoreExclusive(z, max) == Reverse(ZMembers(ZAsc({e \in z : e.score < max})))

\* ZREVRANGE key 0 -1: every entry, whatever its score
ZRevRangeUnbounded(z, max) == Reverse(ZMembers(ZAsc(z)))

\* ZREVRANGEBYSCORE key max -inf
ZRevRangeByScore(z, max) == Reverse(ZRangeByScore(z, max))

\* ------------------------------------------------------------ data models
\* api.Message and api.Reaction
ApiReaction(id, message_id, type, score, user_id, created_at) ==
    [id |-> id, message_id |-> message_id, type |-> type, score |-> score,
     user_id |-> user_id, created_at |-> created_at]

ApiMessage(id, text, user_id, created_at, reactions) ==
    [id |-> id, text |-> text, user_id |-> user_id, created_at |-> created_at,
     reactions |-> reactions, reaction_count |-> Len(reactions)]

\* postgres: reaction.APIReaction and message.APIMessage
PgAPIReaction(r) ==
    ApiReaction(r.id, r.message_id, r.type, r.score, r.user_id, r.created_at)

PgAPIMessage(m, reactions) ==
    ApiMessage(m.id, m.message_text, m.user_id, m.created_at,
               [i \in DOMAIN reactions |-> PgAPIReaction(reactions[i])])

\* redis: the hash written for a message / a reaction (the `redis` tags)
RedisMessage(msg) ==
    [id |-> msg.id, text |-> msg.text, user_id |-> msg.user_id,
     created_at |-> msg.created_at]

\* InsertReaction copies every field but CreatedAt into the hash
RedisReaction(mr) ==
    [id |-> mr.id, message_id |-> mr.message_id, user_id |-> mr.user_id,
     type |-> mr.type, score |-> mr.score, created_at |-> ZeroTime]

\* the value Scan leaves in a struct when HGETALL finds no hash
ZeroMessage == [id |-> EmptyID, text |-> "", user_id |-> "", created_at |-> ZeroTime]

\* redis: reaction.APIReaction (CreatedAt is not copied) and message.APIMessage
RedisAPIReaction(r) ==
    ApiReaction(r.id, r.message_id, r.type, r.score, r.user_id, ZeroTime)

RedisAPIMessage(m, reactions) ==
    ApiMessage(m.id, m.text, m.user_id, m.created_at,
               [i \in DOMAIN reactions |-> RedisAPIReaction(reactions[i])])

\* time.Time.Format(time.RFC1123): whole seconds
TicksPerSecond == 2
FormatRFC1123(t) == [layout |-> "RFC1123", seconds |-> t \div TicksPerSecond]

IDs(msgs) == [i \in DOMAIN msgs |-> msgs[i].id]

\* ---------------------------------------------------------------- postgres
\* ORDER BY created_at DESC; rows with equal created_at come in an order SQL
\* leaves open: tie = 1 lists them by descending id, tie = -1 by ascending id.
Ties == {1, -1}

PgOrderDesc(msgs, tie) ==
    LET z == {[member |-> tie * m.id, score |-> m.created_at] : m \in msgs}
        ids == Reverse(ZMembers(ZAsc(z)))
    IN  [i \in DOMAIN ids |-> CHOOSE m \in msgs : m.id = tie * ids[i]]

\* Relation("Reactions"): the reactions joined on message_id
PgReactionsOf(reacts, mid, tie) ==
    LET z == {[member |-> tie * r.id, score |-> 0] : r \in {x \in reacts : x.message_id = mid}}
        ids == ZMembers(ZAsc(z))
    IN  [i \in DOMAIN ids |-> CHOOSE r \in reacts : r.id = tie * ids[i]]

\* LIMIT limit OFFSET offset of an ordered result
LimitOffset(s, limit, offset) ==
    SubSeq(s, offset + 1, Min(Len(s), offset + limit))

\* Postgres.ListMessages without the NOT IN condition
PgListMessagesNoExclusion(msgs, reacts, limit, offset, exclude, tie) ==
    IF offset < 0 \/ EmptyID \in Range(exclude)
    THEN [err |-> TRUE, msgs |-> <<>>]
    ELSE LET page == LimitOffset(PgOrderDesc(msgs, tie), limit, offset)
         IN  [err |-> FALSE,
              msgs |-> [i \in DOMAIN page |->
                          PgAPIMessage(page[i], PgReactionsOf(reacts, page[i].id, tie))]]

\* Postgres.ListMessages with the exclusion applied to the page LIMIT/OFFSET cut
PgListMessagesLimitFirst(msgs, reacts, limit, offset, exclude, tie) ==
    IF offset < 0 \/ EmptyID \in Range(exclude)
    THEN [err |-> TRUE, msgs |-> <<>>]
    ELSE LET cut == LimitOffset(PgOrderDesc(msgs, tie), limit, offset)
             page == SelectSeq(cut, LAMBDA m : m.id \notin Range(exclude))
         IN  [err |-> FALSE,
              msgs |-> [i \in DOMAIN page |->
                          PgAPIMessage(page[i], PgReactionsOf(reacts, page[i].id, tie))]]

\* Postgres.ListMessages reporting an empty result as an error (no rows)
PgListMessagesNoRowsError(msgs, reacts, limit, offset, exclude, tie) ==
    LET rest == {m \in msgs : m.id \notin Range(exclude)}
        page == LimitOffset(PgOrderDesc(rest, tie), limit, offset)
    IN  IF offset < 0 \/ EmptyID \in Range(exclude) \/ page = <<>>
        THEN [err |-> TRUE, msgs |-> <<>>]
        ELSE [err |-> FALSE,
              msgs |-> [i \in DOMAIN page |->
                          PgAPIMessage(page[i], PgReactionsOf(reacts, page[i].id, tie))]]

\* Postgres.ListMessages whose NOT IN list misses the first identifier passed
PgListMessagesExcludeTail(msgs, reacts, limit, offset, exclude, tie) ==
    IF offset < 0 \/ EmptyID \in Range(exclude)
    THEN [err |-> TRUE, msgs |-> <<>>]
    ELSE LET kept == IF Len(exclude) > 1
                     THEN {m \in msgs : m.id \notin Range(Tail(exclude))}
                     ELSE msgs
             page == LimitOffset(PgOrderDesc(kept, tie), limit, offset)
         IN  [err |-> FALSE,
              msgs |-> [i \in DOMAIN page |->
                          PgAPIMessage(page[i], PgReactionsOf(reacts, page[i].id, tie))]]

\* Postgres.ListMessages: [err, msgs].  A negative OFFSET and an exclusion
\* value that is no uuid (the empty string) are SQL errors.
PgListMessages(msgs, reacts, limit, offset, exclude, tie) ==
    IF offset < 0 \/ EmptyID \in Range(exclude)
    THEN [err |-> TRUE, msgs |-> <<>>]
    ELSE LET kept == IF Len(exclude) > 0
                     THEN {m \in msgs : m.id \notin Range(exclude)}
                     ELSE msgs
             page == LimitOffset(PgOrderDesc(kept, tie), limit, offset)
         IN  [err |-> FALSE,
              msgs |-> [i \in DOMAIN page |->
                          PgAPIMessage(page[i], PgReactionsOf(reacts, page[i].id, tie))]]

\* the row INSERT ... RETURNING gives back: id and created_at are the defaults
PgNewMessage(msgs, text, user_id, now) ==
    [id |-> Cardinality(msgs) + 1, message_text |-> text, user_id |-> user_id,
     created_at |-> now]

PgNewReaction(reacts, message_id, type, score, user_id, now) ==
    [id |-> Cardinality(reacts) + 1, message_id |-> message_id, user_id |-> user_id,
     type |-> type, score |-> score, created_at |-> now]

\* ------------------------------------------------------------------- redis
\* HGETALL messages:<key> scanned into a message
HGetAllMessage(rows, key) ==
    IF \E r \in rows : r.id = key THEN CHOOSE r \in rows : r.id = key ELSE ZeroMessage

\* Redis.ListReactions returning the reactions in the order of their keys, the
\* order they were created in
ListReactionsByKey(rz, rr, msgId, now) ==
    LET members == ZMembers(ZAsc({[member |-> e.member, score |-> 0] :
                                     e \in {x \in rz : x.msg = msgId /\ x.score <= now}}))
    IN  [i \in DOMAIN members |->
            LET hit == {r \in rr : r.msg = msgId /\ r.row.id = members[i]}
            IN  IF hit = {} THEN RedisReaction(ApiReaction(EmptyID, EmptyID, "", 0, "", ZeroTime))
                ELSE (CHOOSE r \in hit : TRUE).row]

\* Redis.ListReactions(msgId): ZRANGEBYSCORE messages:<msgId>:reactions -inf now,
\* then HGETALL of every member
ListReactions(rz, rr, msgId, now) ==
    LET members == ZRangeByScore({[member |-> e.member, score |-> e.score] :
                                     e \in {x \in rz : x.msg = msgId}}, now)
    IN  [i \in DOMAIN members |->
            LET hit == {r \in rr : r.msg = msgId /\ r.row.id = members[i]}
            IN  IF hit = {} THEN RedisReaction(ApiReaction(EmptyID, EmptyID, "", 0, "", ZeroTime))
                ELSE (CHOOSE r \in hit : TRUE).row]

\* evictOldest with the stop rank off by one: one key too many is removed
EvictKeysOneMore(z) == ZRange(z, 0, -maxSize)

\* evictOldest with the stop rank off by one: one key too few is removed
EvictKeysOneLess(z) == ZRange(z, 0, -maxSize - 2)

\* the keys above the maxSize lowest-scored ones
EvictKeysNewest(z) == ZRange(z, maxSize, -1)

\* evictOldest removing the one oldest key when the index is over maxSize
EvictKeysOldestOnly(z) == IF Cardinality(z) > maxSize THEN ZRange(z, 0, 0) ELSE <<>>

\* evictOldest: the keys ZRANGE messages 0 -maxSize-1 returns
EvictKeys(z) == ZRange(z, 0, -maxSize - 1)

\* ------------------------------------------------------------------- state
VARIABLES
    db_msgs,     \* postgres: table messages
    db_reacts,   \* postgres: table reactions
    zset,        \* redis: sorted set "messages"
    rows,        \* redis: hashes "messages:<id>"
    rzset,       \* redis: sorted sets "messages:<id>:reactions", [msg, member, score]
    rrows,       \* redis: hashes "messages:<id>:reactions:<rid>", [msg, row]
    clock,       \* time.Now() of the service
    skew,        \* now() of postgres minus time.Now() of the service
    pc,          \* per request handler: the call it is about to make
    loc,         \* per request handler: its local variables
    resp,        \* per request handler: the last response it wrote, what it logged
    inserted,    \* history: ids in the order Redis.InsertMessage committed them
    evicted,     \* history: ids evictOldest removed from the sorted set
    used,        \* messages, reactions, ticks spent so far
    faults       \* failed calls so far, by kind

vars == <<db_msgs, db_reacts, zset, rows, rzset, rrows, clock, skew, pc, loc, resp,
          inserted, evicted, used, faults>>

stores == <<db_msgs, db_reacts, zset, rows, rzset, rrows>>
cache == <<zset, rows, rzset, rrows>>

NoLoc == [arg |-> 0, cur |-> ZeroMessage, victims |-> <<>>, keys |-> <<>>, hot |-> <<>>]

NoResp == [op |-> "none", arg |-> 0, status |-> 0, body |-> <<>>, log |-> {},
           hot |-> <<>>, cold |-> <<>>, seen |-> 0]

\* the messages a store of n messages holds: one per tick, ids in creation order
InitMessages(n) == {PgNewMessage({k \in 1 .. n : k < i}, TheText, TheUser, i) : i \in 1 .. n}

\* the entries of the maxSize newest of them
InitNewest(n) == {i \in 1 .. n : i > n - maxSize}

Init ==
    \E n \in InitSizes, sk \in Skews :
        /\ db_msgs = InitMessages(n)
        /\ db_reacts = {}
        /\ zset = {[member |-> i, score |-> i] : i \in InitNewest(n)}
        /\ rows = {RedisMessage(PgAPIMessage(m, <<>>)) : m \in {x \in InitMessages(n) : x.id \in InitNewest(n)}}
        /\ rzset = {}
        /\ rrows = {}
        /\ clock = n + 1
        /\ skew = sk
        /\ pc = [p \in Procs |-> "idle"]
        /\ loc = [p \in Procs |-> NoLoc]
        /\ resp = [p \in Procs |-> NoResp]
        /\ inserted = [i \in 1 .. n |-> i]
        /\ evicted = {i \in 1 .. n : i \notin InitNewest(n)}
        /\ used = [k \in {"msgs", "reacts", "ticks"} |-> 0]
        /\ faults = [k \in FaultKinds |-> 0]

RECURSIVE SumOver(_, _)
SumOver(f, S) == IF S = {} THEN 0 ELSE LET k == CHOOSE x \in S : TRUE IN f[k] + SumOver(f, S \ {k})

FaultTotal == SumOver(faults, FaultKinds)
MayFail == FaultTotal < MaxFaults
Fail(kind) == faults' = [faults EXCEPT ![kind] = @ + 1]

\* now() of postgres
PgNow == clock + skew

Quiescent == \A p \in Procs : pc[p] = "idle"

\* ---------------------------------------------------------------- responses
\* a.respond(w, status, body), with what the handler logged at Error level
Respond(p, op, status, body, log) ==
    /\ resp' = [resp EXCEPT ![p] = [NoResp EXCEPT !.op = op, !.arg = loc[p].arg,
                                       !.status = status, !.body = body, !.log = log]]
    /\ pc' = [pc EXCEPT ![p] = "done"]
    /\ loc' = [loc EXCEPT ![p] = NoLoc]

\* a.respondError(w, status, err, msg): logs "Error", body {"error": msg}
RespondError(p, op, status, msg, log) ==
    Respond(p, op, status, [error |-> msg], log \cup {"Error"})

\* an insert failure that answers 500 and goes on to the cache call
InsertFailedThenCaches(p, op, arg, msg) ==
    /\ resp' = [resp EXCEPT ![p] =
                  [NoResp EXCEPT !.op = op, !.arg = arg,
                                 !.status = StatusInternalServerError,
                                 !.body = [error |-> msg], !.log = {"Error"}]]
    /\ pc' = [pc EXCEPT ![p] = IF op = "createMessage" THEN "im_tx" ELSE "ir_tx"]
    /\ UNCHANGED loc

\* createMessage / createReaction when DB.Insert... returned an error:
\* respondError(500) and return, the cache is not called
InsertFailed(p, op, arg, msg) ==
    /\ resp' = [resp EXCEPT ![p] =
                  [NoResp EXCEPT !.op = op, !.arg = arg,
                                 !.status = StatusInternalServerError,
                                 !.body = [error |-> msg], !.log = {"Error"}]]
    /\ pc' = [pc EXCEPT ![p] = "done"]
    /\ UNCHANGED loc

\* ------------------------------------------------------------ createMessage
\* a createMessage that fails the request when the cache call failed
CreateMessageFailsOnCacheError(p, cacheErr) ==
    LET msg == loc[p].cur
    IN  IF cacheErr
        THEN RespondError(p, "createMessage", StatusInternalServerError,
                          "Could not cache message", {"Could not cache message"})
        ELSE Respond(p, "createMessage", StatusCreated,
                     [id |-> msg.id, text |-> msg.text, user_id |-> msg.user_id,
                      created_at |-> FormatRFC1123(msg.created_at)], {})

\* the tail of createMessage, after Cache.InsertMessage returned: a cache error
\* is logged, the response is 201 with the stored message either way
CreateMessageRespond(p, cacheErr) ==
    LET msg == loc[p].cur
    IN  Respond(p, "createMessage", StatusCreated,
                [id |-> msg.id, text |-> msg.text, user_id |-> msg.user_id,
                 created_at |-> FormatRFC1123(msg.created_at)],
                IF cacheErr THEN {"Could not cache message"} ELSE {})

\* DB.InsertMessage succeeds
CM_DBInsert(p) ==
    /\ pc[p] = "idle"
    /\ used["msgs"] < MaxNewMsgs
    /\ LET m == PgNewMessage(db_msgs, TheText, TheUser, PgNow)
       IN  /\ db_msgs' = db_msgs \cup {m}
           /\ loc' = [loc EXCEPT ![p] = [NoLoc EXCEPT !.cur = PgAPIMessage(m, <<>>)]]
    /\ used' = [used EXCEPT !["msgs"] = @ + 1]
    /\ pc' = [pc EXCEPT ![p] = "im_tx"]
    /\ UNCHANGED <<db_reacts, cache, clock, skew, resp, inserted, evicted, faults>>

\* a createMessage that mirrors the message into the cache first and lets
\* the store insert, which fails, come second
CM_DBInsertFailCacheFirst(p) ==
    /\ pc[p] = "idle"
    /\ MayFail
    /\ Fail("db")
    /\ loc' = [loc EXCEPT ![p] =
                 [NoLoc EXCEPT !.cur = PgAPIMessage(
                     PgNewMessage(db_msgs, TheText, TheUser, clock), <<>>)]]
    /\ pc' = [pc EXCEPT ![p] = "im_tx"]
    /\ UNCHANGED <<stores, clock, skew, resp, inserted, evicted, used>>

\* DB.InsertMessage fails: 500, nothing else is called
CM_DBInsertFail(p) ==
    /\ pc[p] = "idle"
    /\ MayFail
    /\ Fail("db")
    /\ InsertFailed(p, "createMessage", 0, "Could not insert message")
    /\ UNCHANGED <<stores, clock, skew, inserted, evicted, used>>

\* Redis.InsertMessage: MULTI HSET ZADD EXEC commits
IM_Tx(p) ==
    /\ pc[p] = "im_tx"
    /\ LET m == RedisMessage(loc[p].cur)
       IN  /\ rows' = {r \in rows : r.id # m.id} \cup {m}
           /\ zset' = ZAdd(zset, m.id, loc[p].cur.created_at)
           /\ inserted' = Append(inserted, m.id)
    /\ pc' = [pc EXCEPT ![p] = "ev_read"]
    /\ UNCHANGED <<db_msgs, db_reacts, rzset, rrows, clock, skew, loc, resp, evicted,
                   used, faults>>

\* Redis.InsertMessage: the transaction fails, InsertMessage returns the error
IM_TxFail(p) ==
    /\ pc[p] = "im_tx"
    /\ MayFail
    /\ Fail("tx")
    /\ CreateMessageRespond(p, TRUE)
    /\ UNCHANGED <<stores, clock, skew, inserted, evicted, used>>

\* evictOldest: ZRANGE succeeds; no key to remove ends InsertMessage with nil
Ev_Read(p) ==
    /\ pc[p] = "ev_read"
    /\ LET keys == EvictKeys(zset)
       IN  IF keys = <<>>
           THEN CreateMessageRespond(p, FALSE)
           ELSE /\ loc' = [loc EXCEPT ![p].victims = keys]
                /\ pc' = [pc EXCEPT ![p] = "ev_zrem"]
                /\ UNCHANGED resp
    /\ UNCHANGED <<stores, clock, skew, inserted, evicted, used, faults>>

\* evictOldest: ZRANGE fails, InsertMessage returns "evict oldest" after its commit
Ev_ReadFail(p) ==
    /\ pc[p] = "ev_read"
    /\ MayFail
    /\ Fail("evread")
    /\ CreateMessageRespond(p, TRUE)
    /\ UNCHANGED <<stores, clock, skew, inserted, evicted, used>>

\* a loop body that removes the lowest entry of the index at that moment
\* instead of the key ZRANGE returned
Ev_ZRemLowest(p) ==
    /\ pc[p] = "ev_zrem"
    /\ zset' = (IF zset = {} THEN zset ELSE ZRem(zset, ZMin(zset).member))
    /\ evicted' = evicted \cup (IF zset = {} THEN {} ELSE {ZMin(zset).member})
    /\ pc' = [pc EXCEPT ![p] = "ev_del"]
    /\ UNCHANGED <<db_msgs, db_reacts, rows, rzset, rrows, clock, skew, loc, resp,
                   inserted, used, faults>>

\* evictOldest, loop body: ZREM messages key
Ev_ZRem(p) ==
    /\ pc[p] = "ev_zrem"
    /\ zset' = ZRem(zset, Head(loc[p].victims))
    /\ evicted' = evicted \cup ({Head(loc[p].victims)} \cap {e.member : e \in zset})
    /\ pc' = [pc EXCEPT ![p] = "ev_del"]
    /\ UNCHANGED <<db_msgs, db_reacts, rows, rzset, rrows, clock, skew, loc, resp,
                   inserted, used, faults>>

\* evictOldest, loop body: DEL key
Ev_Del(p) ==
    /\ pc[p] = "ev_del"
    /\ rows' = {r \in rows : r.id # Head(loc[p].victims)}
    /\ pc' = [pc EXCEPT ![p] = "ev_delr"]
    /\ UNCHANGED <<db_msgs, db_reacts, zset, rzset, rrows, clock, skew, loc, resp,
                   inserted, evicted, used, faults>>

\* a loop that never moves on to the next key
EvictNextRepeats(p) ==
    /\ pc' = [pc EXCEPT ![p] = "ev_zrem"]
    /\ UNCHANGED <<loc, resp>>

\* the end of one round of the loop: the next key, or InsertMessage returns nil
EvictNext(p) ==
    IF Tail(loc[p].victims) = <<>>
    THEN CreateMessageRespond(p, FALSE)
    ELSE /\ loc' = [loc EXCEPT ![p].victims = Tail(@)]
         /\ pc' = [pc EXCEPT ![p] = "ev_zrem"]
         /\ UNCHANGED resp

\* evictOldest, loop body: DEL key:reactions
Ev_DelReactions(p) ==
    /\ pc[p] = "ev_delr"
    /\ rzset' = {e \in rzset : e.msg # Head(loc[p].victims)}
    /\ EvictNext(p)
    /\ UNCHANGED <<db_msgs, db_reacts, zset, rows, rrows, clock, skew, inserted,
                   evicted, used, faults>>

\* evictOldest, loop body: a removal fails and its error is dropped
Ev_StepFail(p) ==
    /\ pc[p] \in {"ev_zrem", "ev_del", "ev_delr"}
    /\ MayFail
    /\ Fail(IF pc[p] = "ev_zrem" THEN "zrem" ELSE "del")
    /\ IF pc[p] = "ev_delr"
       THEN EvictNext(p)
       ELSE /\ pc' = [pc EXCEPT ![p] = IF pc[p] = "ev_zrem" THEN "ev_del" ELSE "ev_delr"]
            /\ UNCHANGED <<loc, resp>>
    /\ UNCHANGED <<stores, clock, skew, inserted, evicted, used>>

\* ----------------------------------------------------------- createReaction
\* the {messageID} path values tried: the oldest message, the oldest cached one
\* and an id no message has
OldestCached == IF zset = {} THEN 1 ELSE ZMin(zset).member
ReactionTargets == {1, OldestCached, Cardinality(db_msgs) + 1}

\* DB.InsertReaction: the insert succeeds when messages(id) holds message_id
\* (REFERENCES messages(id)), and fails otherwise: 500
CR_DBInsert(p, messageID) ==
    /\ pc[p] = "idle"
    /\ used["reacts"] < MaxNewReacts
    /\ used' = [used EXCEPT !["reacts"] = @ + 1]
    /\ IF \E m \in db_msgs : m.id = messageID
       THEN LET r == PgNewReaction(db_reacts, messageID, TheType, TheScore, TheUser, PgNow)
            IN  /\ db_reacts' = db_reacts \cup {r}
                /\ loc' = [loc EXCEPT ![p] = [NoLoc EXCEPT !.arg = messageID,
                                                          !.cur = PgAPIReaction(r)]]
                /\ pc' = [pc EXCEPT ![p] = "ir_tx"]
                /\ UNCHANGED resp
       ELSE /\ InsertFailed(p, "createReaction", messageID, "could not create reaction")
            /\ UNCHANGED db_reacts
    /\ UNCHANGED <<db_msgs, cache, clock, skew, inserted, evicted, faults>>

\* DB.InsertReaction fails: 500, nothing else is called
CR_DBInsertFail(p, messageID) ==
    /\ pc[p] = "idle"
    /\ MayFail
    /\ Fail("db")
    /\ InsertFailed(p, "createReaction", messageID, "could not create reaction")
    /\ UNCHANGED <<stores, clock, skew, inserted, evicted, used>>

\* a Redis.InsertReaction that refuses a message the cache does not hold
IR_TxResidentOnly(p) ==
    /\ pc[p] = "ir_tx"
    /\ LET mr == loc[p].cur
           msgId == loc[p].arg
       IN  IF \E e \in zset : e.member = msgId
           THEN /\ rrows' = {r \in rrows : ~(r.msg = msgId /\ r.row.id = mr.id)}
                               \cup {[msg |-> msgId, row |-> RedisReaction(mr)]}
                /\ rzset' = {e \in rzset : ~(e.msg = msgId /\ e.member = mr.id)}
                               \cup {[msg |-> msgId, member |-> mr.id, score |-> mr.created_at]}
                /\ Respond(p, "createReaction", StatusCreated,
                           ApiReaction(mr.id, mr.message_id, mr.type, mr.score, mr.user_id,
                                       mr.created_at), {})
           ELSE /\ RespondError(p, "createReaction", StatusInternalServerError,
                                "Internal server error", {"Could not cache reaction"})
                /\ UNCHANGED <<rrows, rzset>>
    /\ UNCHANGED <<db_msgs, db_reacts, zset, rows, clock, skew, inserted, evicted,
                   used, faults>>

\* a Redis.InsertReaction that also takes the oldest message out of the index
IR_TxTrims(p) ==
    /\ pc[p] = "ir_tx"
    /\ LET mr == loc[p].cur
           msgId == loc[p].arg
       IN  /\ rrows' = {r \in rrows : ~(r.msg = msgId /\ r.row.id = mr.id)}
                          \cup {[msg |-> msgId, row |-> RedisReaction(mr)]}
           /\ rzset' = {e \in rzset : ~(e.msg = msgId /\ e.member = mr.id)}
                          \cup {[msg |-> msgId, member |-> mr.id, score |-> mr.created_at]}
           /\ Respond(p, "createReaction", StatusCreated,
                      ApiReaction(mr.id, mr.message_id, mr.type, mr.score, mr.user_id,
                                  mr.created_at), {})
    /\ zset' = ZRem(zset, OldestCached)
    /\ UNCHANGED <<db_msgs, db_reacts, rows, clock, skew, inserted, evicted,
                   used, faults>>

\* Redis.InsertReaction(msgId, mr): MULTI HSET ZADD EXEC commits; 201
IR_Tx(p) ==
    /\ pc[p] = "ir_tx"
    /\ LET mr == loc[p].cur
           msgId == loc[p].arg
       IN  /\ rrows' = {r \in rrows : ~(r.msg = msgId /\ r.row.id = mr.id)}
                          \cup {[msg |-> msgId, row |-> RedisReaction(mr)]}
           /\ rzset' = {e \in rzset : ~(e.msg = msgId /\ e.member = mr.id)}
                          \cup {[msg |-> msgId, member |-> mr.id, score |-> mr.created_at]}
           /\ Respond(p, "createReaction", StatusCreated,
                      ApiReaction(mr.id, mr.message_id, mr.type, mr.score, mr.user_id,
                                  mr.created_at), {})
    /\ UNCHANGED <<db_msgs, db_reacts, zset, rows, clock, skew, inserted, evicted,
                   used, faults>>

\* a createReaction that logs the cache error and answers 201 like createMessage
CreateReactionIgnoresCacheError(p) ==
    LET mr == loc[p].cur
    IN  Respond(p, "createReaction", StatusCreated,
                ApiReaction(mr.id, mr.message_id, mr.type, mr.score, mr.user_id,
                            mr.created_at), {"Could not cache reaction"})

\* the tail of createReaction when Cache.InsertReaction returned an error:
\* logged, respondError(500)
CreateReactionCacheError(p) ==
    RespondError(p, "createReaction", StatusInternalServerError,
                 "Internal server error", {"Could not cache reaction"})

\* a createReaction that takes the stored reaction back when the cache fails
IR_TxFailRollsBack(p) ==
    /\ pc[p] = "ir_tx"
    /\ MayFail
    /\ Fail("tx")
    /\ CreateReactionCacheError(p)
    /\ db_reacts' = {r \in db_reacts : r.id # loc[p].cur.id}
    /\ UNCHANGED <<db_msgs, cache, clock, skew, inserted, evicted, used>>

\* Redis.InsertReaction fails
IR_TxFail(p) ==
    /\ pc[p] = "ir_tx"
    /\ MayFail
    /\ Fail("tx")
    /\ CreateReactionCacheError(p)
    /\ UNCHANGED <<stores, clock, skew, inserted, evicted, used>>

\* ------------------------------------------------------------- listMessages
\* Redis.ListMessages: ZREVRANGEBYSCORE messages now -inf
LM_ZRevRange(p, page) ==
    /\ pc[p] = "idle"
    /\ loc' = [loc EXCEPT ![p] = [NoLoc EXCEPT !.arg = page,
                                              !.keys = ZRevRangeByScore(zset, clock)]]
    /\ pc' = [pc EXCEPT ![p] = "lm_resolve"]
    /\ UNCHANGED <<stores, clock, skew, resp, inserted, evicted, used, faults>>

\* Redis.ListMessages, loop body: HGETALL key scanned into msg, then
\* ListReactions(msg.ID), out[i] = msg.APIMessage()
ResolveKey(rws, rz, rr, key, now) ==
    LET msg == HGetAllMessage(rws, key)
    IN  RedisAPIMessage(msg, ListReactions(rz, rr, msg.id, now))

\* Redis.ListMessages, the whole loop over the keys a ZREVRANGEBYSCORE returned
ResolveKeys(rws, rz, rr, keys, now) ==
    [i \in DOMAIN keys |-> ResolveKey(rws, rz, rr, keys[i], now)]

\* Redis.ListMessages, the loop over the keys.  The reads of the loop are taken
\* at one instant, after the ZREVRANGEBYSCORE: hashes are only ever deleted, in
\* ascending order of score, and the loop reads them in descending order.
LM_Resolve(p) ==
    /\ pc[p] = "lm_resolve"
    /\ loc' = [loc EXCEPT ![p].hot = ResolveKeys(rows, rzset, rrows, loc[p].keys, clock),
                          ![p].keys = <<>>]
    /\ pc' = [pc EXCEPT ![p] = "lm_db"]
    /\ UNCHANGED <<stores, clock, skew, resp, inserted, evicted, used, faults>>

\* Cache.ListMessages fails at its first call: 500, the store is not queried
LM_ZRevRangeFail(p, page) ==
    /\ pc[p] = "idle"
    /\ MayFail
    /\ Fail("cacheread")
    /\ resp' = [resp EXCEPT ![p] =
                  [NoResp EXCEPT !.op = "listMessages", !.arg = page,
                                 !.status = StatusInternalServerError,
                                 !.body = [error |-> "Could not list messages"],
                                 !.log = {"Error"}]]
    /\ pc' = [pc EXCEPT ![p] = "done"]
    /\ UNCHANGED <<stores, clock, skew, loc, inserted, evicted, used>>

\* a listMessages that answers a failed cache read with a page of the store only
LM_ResolveFailDegrades(p) ==
    /\ pc[p] = "lm_resolve"
    /\ MayFail
    /\ Fail("cacheread")
    /\ loc' = [loc EXCEPT ![p].hot = <<>>, ![p].keys = <<>>]
    /\ pc' = [pc EXCEPT ![p] = "lm_db"]
    /\ UNCHANGED <<stores, clock, skew, resp, inserted, evicted, used>>

\* Cache.ListMessages fails at a later call: 500, the store is not queried
LM_ResolveFail(p) ==
    /\ pc[p] = "lm_resolve"
    /\ MayFail
    /\ Fail("cacheread")
    /\ RespondError(p, "listMessages", StatusInternalServerError,
                    "Could not list messages", {})
    /\ UNCHANGED <<stores, clock, skew, inserted, evicted, used>>

\* listMessages with the hot window prepended on the first page only
ResponseMessagesHotOnFirstPage(page, hot, dbMsgs) ==
    IF page = 1 THEN hot \o dbMsgs ELSE dbMsgs

\* the messages listMessages answers with, whatever the page:
\* msgs = append(msgs, dbMsgs...)
ResponseMessages(page, hot, dbMsgs) == hot \o dbMsgs

\* a.DB.ListMessages(ctx, pageSize, pageSize*(page-1), msgIDs...)
DBSegment(hot, page, tie) ==
    PgListMessages(db_msgs, db_reacts, pageSize, pageSize * (page - 1), IDs(hot), tie)

\* the call of DB.ListMessages and the response
LM_DBList(p, tie) ==
    /\ pc[p] = "lm_db"
    /\ LET page == loc[p].arg
           hot == loc[p].hot
           r == DBSegment(hot, page, tie)
       IN  IF r.err
           THEN RespondError(p, "listMessages", StatusInternalServerError,
                             "Could not list messages", {})
           ELSE /\ resp' = [resp EXCEPT ![p] =
                              [NoResp EXCEPT !.op = "listMessages", !.arg = page,
                                             !.status = StatusOK,
                                             !.body = [messages |-> ResponseMessages(page, hot, r.msgs)],
                                             !.hot = hot, !.cold = r.msgs,
                                             !.seen = Cardinality(db_msgs)]]
                /\ pc' = [pc EXCEPT ![p] = "done"]
                /\ loc' = [loc EXCEPT ![p] = NoLoc]
    /\ UNCHANGED <<stores, clock, skew, inserted, evicted, used, faults>>

\* DB.ListMessages fails: 500
LM_DBListFail(p) ==
    /\ pc[p] = "lm_db"
    /\ MayFail
    /\ Fail("db")
    /\ RespondError(p, "listMessages", StatusInternalServerError,
                    "Could not list messages", {})
    /\ UNCHANGED <<stores, clock, skew, inserted, evicted, used>>

\* the response is written and the handler returns
Finish(p) ==
    /\ pc[p] = "done"
    /\ pc' = [pc EXCEPT ![p] = "idle"]
    /\ resp' = [resp EXCEPT ![p] = NoResp]
    /\ UNCHANGED <<stores, clock, skew, loc, inserted, evicted, used, faults>>

\* -------------------------------------------------------------------- clock
Tick ==
    /\ used["ticks"] < MaxTicks
    /\ used' = [used EXCEPT !["ticks"] = @ + 1]
    /\ clock' = clock + 1
    /\ UNCHANGED <<stores, skew, pc, loc, resp, inserted, evicted, faults>>

\* ------------------------------------------------ requests served alone
\* what Redis.ListMessages returns when no other request runs during it
CacheList == ResolveKeys(rows, rzset, rrows, ZRevRangeByScore(zset, clock), clock)

\* what listMessages answers to ?page=page when no other request runs during
\* it and no call fails: [err, hot, cold, msgs]
ListPage(page, tie) ==
    LET hot == CacheList
        r == DBSegment(hot, page, tie)
    IN  [err |-> r.err, hot |-> hot, cold |-> r.msgs, msgs |-> ResponseMessages(page, hot, r.msgs)]

\* Redis.ListMessages and listMessages served alone when the reader's
\* time.Now() is now
CacheListAt(now) == ResolveKeys(rows, rzset, rrows, ZRevRangeByScore(zset, now), now)

ListPageAt(page, tie, now) ==
    LET hot == CacheListAt(now)
        r == DBSegment(hot, page, tie)
    IN  [err |-> r.err, hot |-> hot, cold |-> r.msgs, msgs |-> ResponseMessages(page, hot, r.msgs)]

Next ==
    \/ Tick
    \/ \E p \in Procs :
          \/ CM_DBInsert(p)
          \/ CM_DBInsertFail(p)
          \/ IM_Tx(p)
          \/ IM_TxFail(p)
          \/ Ev_Read(p)
          \/ Ev_ReadFail(p)
          \/ Ev_ZRem(p)
          \/ Ev_Del(p)
          \/ Ev_DelReactions(p)
          \/ Ev_StepFail(p)
          \/ Finish(p)
    \/ \E p \in Readers :
          \/ \E messageID \in ReactionTargets :
                \/ CR_DBInsert(p, messageID)
                \/ CR_DBInsertFail(p, messageID)
          \/ IR_Tx(p)
          \/ IR_TxFail(p)
          \/ \E page \in Pages :
                \/ LM_ZRevRange(p, page)
                \/ LM_ZRevRangeFail(p, page)
          \/ LM_Resolve(p)
          \/ LM_ResolveFail(p)
          \/ \E tie \in Ties : LM_DBList(p, tie)
          \/ LM_DBListFail(p)

Spec == Init /\ [][Next]_vars

\* ------------------------------------------ the cache under any timestamps
\* One handler serving creations one after the other, the store handing back
\* any creation time around the service's clock: created_at is the store's
\* now(), read before the row commits and before the cache is written, so the
\* cache receives timestamps in any order.
CacheMaxMsgs == 2
CacheMaxReacts == 3
CacheProcs == {1}
MessageTimes == {1, clock}
ReactionTimes == {clock - 1, clock, clock + 1}

\* createMessage up to DB.InsertMessage, the row stamped t
DBInsertMessageAt(p, t) ==
    /\ pc[p] = "idle"
    /\ used["msgs"] < CacheMaxMsgs
    /\ LET m == PgNewMessage(db_msgs, TheText, TheUser, t)
       IN  /\ db_msgs' = db_msgs \cup {m}
           /\ loc' = [loc EXCEPT ![p] = [NoLoc EXCEPT !.cur = PgAPIMessage(m, <<>>)]]
    /\ used' = [used EXCEPT !["msgs"] = @ + 1]
    /\ pc' = [pc EXCEPT ![p] = "im_tx"]
    /\ UNCHANGED <<db_reacts, cache, clock, skew, resp, inserted, evicted, faults>>

\* createReaction up to DB.InsertReaction for a stored message, the row stamped t
DBInsertReactionAt(p, messageID, t) ==
    /\ pc[p] = "idle"
    /\ used["reacts"] < CacheMaxReacts
    /\ \E m \in db_msgs : m.id = messageID
    /\ used' = [used EXCEPT !["reacts"] = @ + 1]
    /\ LET r == PgNewReaction(db_reacts, messageID, TheType, TheScore, TheUser, t)
       IN  /\ db_reacts' = db_reacts \cup {r}
           /\ loc' = [loc EXCEPT ![p] = [NoLoc EXCEPT !.arg = messageID,
                                                     !.cur = PgAPIReaction(r)]]
    /\ pc' = [pc EXCEPT ![p] = "ir_tx"]
    /\ UNCHANGED <<db_msgs, cache, clock, skew, resp, inserted, evicted, faults>>

CacheNext ==
    \/ Tick
    \/ \E p \in CacheProcs :
          \/ \E t \in MessageTimes : DBInsertMessageAt(p, t)
          \/ IM_Tx(p)
          \/ IM_TxFail(p)
          \/ Ev_Read(p)
          \/ Ev_ReadFail(p)
          \/ Ev_ZRem(p)
          \/ Ev_Del(p)
          \/ Ev_DelReactions(p)
          \/ Ev_StepFail(p)
          \/ \E t \in ReactionTimes : DBInsertReactionAt(p, OldestCached, t)
          \/ IR_Tx(p)
          \/ IR_TxFail(p)
          \/ Finish(p)

CacheInit == Init /\ skew = 0

CacheSpec == CacheInit /\ [][CacheNext]_vars

\* a step of the loop of evictOldest in which the command succeeds
EvictionStep ==
    \E p \in CacheProcs : Ev_ZRem(p) \/ Ev_Del(p) \/ Ev_DelReactions(p)

\* the creations of messages alone
MessagesNext ==
    \E p \in CacheProcs :
        \/ \E t \in MessageTimes : DBInsertMessageAt(p, t)
        \/ IM_Tx(p)
        \/ IM_TxFail(p)
        \/ Ev_Read(p)
        \/ Ev_ReadFail(p)
        \/ Ev_ZRem(p)
        \/ Ev_Del(p)
        \/ Ev_DelReactions(p)
        \/ Ev_StepFail(p)
        \/ Finish(p)

\* the handler's goroutine keeps running and Redis answers its commands
FairEvictSpec == CacheInit /\ [][MessagesNext]_vars /\ WF_vars(EvictionStep)

\* --------------------------------------- listings between the creations
\* One handler serving creations and listings one after the other, the store
\* stamping a new message with the service's time or with a later one.
ListTimes == {clock, clock + 1}

ListNext ==
    \/ Tick
    \/ \E p \in CacheProcs :
          \/ \E t \in ListTimes : DBInsertMessageAt(p, t)
          \/ IM_Tx(p)
          \/ IM_TxFail(p)
          \/ Ev_Read(p)
          \/ Ev_ReadFail(p)
          \/ Ev_ZRem(p)
          \/ Ev_Del(p)
          \/ Ev_DelReactions(p)
          \/ Ev_StepFail(p)
          \/ \E page \in Pages :
                \/ LM_ZRevRange(p, page)
                \/ LM_ZRevRangeFail(p, page)
          \/ LM_Resolve(p)
          \/ LM_ResolveFail(p)
          \/ \E tie \in Ties : LM_DBList(p, tie)
          \/ LM_DBListFail(p)
          \/ Finish(p)

ListSpec == CacheInit /\ [][ListNext]_vars

\* ------------------------------------------- handlers that keep running
\* Two concurrent handlers as in Spec, the clock standing still, from a full
\* cache; the goroutine of a request keeps running and every Redis command
\* and SQL statement returns, with a value or with an error.
LiveInit == Init /\ skew = 0 /\ Cardinality(db_msgs) = InitFull

LiveNext ==
    \/ \E p \in Procs :
          \/ CM_DBInsert(p)
          \/ CM_DBInsertFail(p)
          \/ IM_Tx(p)
          \/ IM_TxFail(p)
          \/ Ev_Read(p)
          \/ Ev_ReadFail(p)
          \/ Ev_ZRem(p)
          \/ Ev_Del(p)
          \/ Ev_DelReactions(p)
          \/ Ev_StepFail(p)
          \/ Finish(p)
    \/ \E p \in Readers :
          \/ \E messageID \in ReactionTargets :
                \/ CR_DBInsert(p, messageID)
                \/ CR_DBInsertFail(p, messageID)
          \/ IR_Tx(p)
          \/ IR_TxFail(p)
          \/ \E page \in Pages :
                \/ LM_ZRevRange(p, page)
                \/ LM_ZRevRangeFail(p, page)
          \/ LM_Resolve(p)
          \/ LM_ResolveFail(p)
          \/ \E tie \in Ties : LM_DBList(p, tie)
          \/ LM_DBListFail(p)

\* the calls of a handler under way that write to the cache, or fail
WriteStep(p) ==
    \/ IM_Tx(p)
    \/ IM_TxFail(p)
    \/ Ev_ReadFail(p)
    \/ Ev_ZRem(p)
    \/ Ev_Del(p)
    \/ Ev_DelReactions(p)
    \/ Ev_StepFail(p)
    \/ IR_Tx(p)
    \/ IR_TxFail(p)
    \/ LM_ResolveFail(p)
    \/ LM_DBListFail(p)

\* the calls of a handler under way that read the cache or the store
ReadStep(p) == Ev_Read(p) \/ LM_Resolve(p) \/ (\E tie \in Ties : LM_DBList(p, tie))

\* ReadStep(p) is enabled exactly when p is about to make one of those calls
Reading(p) == pc[p] \in {"ev_read", "lm_resolve", "lm_db"}

\* weak fairness of the next call of p, that of ReadStep(p) written out with
\* Reading(p) as its enabling condition
HandlerFair(p) ==
    /\ WF_vars(WriteStep(p))
    /\ ([]<>~Reading(p) \/ []<><<ReadStep(p)>>_vars)

LiveSpec == LiveInit /\ [][LiveNext]_vars /\ \A p \in Procs : HandlerFair(p)

\* ------------------------------------------------ a feed built from empty
\* One handler creating messages one after the other from an empty store and
\* an empty cache, every call succeeding; messages created within one tick
\* of the store's clock carry the same created_at.
FeedMaxMsgs == 21
\* the pages requested in turn: those holding the store's rows and one more
FeedPages == 1 .. 3

FeedInit == Init /\ skew = 0 /\ db_msgs = {}

\* createMessage up to DB.InsertMessage
FeedInsert(p) ==
    /\ pc[p] = "idle"
    /\ used["msgs"] < FeedMaxMsgs
    /\ LET m == PgNewMessage(db_msgs, TheText, TheUser, PgNow)
       IN  /\ db_msgs' = db_msgs \cup {m}
           /\ loc' = [loc EXCEPT ![p] = [NoLoc EXCEPT !.cur = PgAPIMessage(m, <<>>)]]
    /\ used' = [used EXCEPT !["msgs"] = @ + 1]
    /\ pc' = [pc EXCEPT ![p] = "im_tx"]
    /\ UNCHANGED <<db_reacts, cache, clock, skew, resp, inserted, evicted, faults>>

FeedNext ==
    \/ Tick
    \/ \E p \in CacheProcs :
          \/ FeedInsert(p)
          \/ IM_Tx(p)
          \/ Ev_Read(p)
          \/ Ev_ZRem(p)
          \/ Ev_Del(p)
          \/ Ev_DelReactions(p)
          \/ Finish(p)

FeedSpec == FeedInit /\ [][FeedNext]_vars

\* ------------------------------------------------- the store queried alone
\* Postgres.ListMessages called with any limit, offset and exclusion list on
\* any small table of messages, some created in the same tick.
StoreMaxMsgs == 4
StoreMaxLimit == 3
StoreMaxOffset == 3
StoreProcs == {1}
StoreTimes == {1, 2}

\* the tables of n messages with ids 1 .. n and any creation times
StoreTables ==
    UNION {{ {[id |-> i, message_text |-> TheText, user_id |-> TheUser,
               created_at |-> f[i]] : i \in 1 .. n} : f \in [1 .. n -> StoreTimes] }
             : n \in 0 .. StoreMaxMsgs}

\* the identifiers of S as the variadic argument, in ascending order
RECURSIVE SeqOf(_)
SeqOf(S) ==
    IF S = {} THEN <<>>
    ELSE LET a == CHOOSE x \in S : \A y \in S : x <= y IN <<a>> \o SeqOf(S \ {a})

\* exclusion lists: any identifiers, stored or not, and the empty string
StoreExcludes == {SeqOf(S) : S \in SUBSET (1 .. StoreMaxMsgs + 1)} \cup {<<EmptyID>>}

StoreInit ==
    /\ db_msgs \in StoreTables
    /\ db_reacts = {}
    /\ zset = {}
    /\ rows = {}
    /\ rzset = {}
    /\ rrows = {}
    /\ clock = StoreMaxMsgs
    /\ skew = 0
    /\ pc = [p \in Procs |-> "idle"]
    /\ loc = [p \in Procs |-> NoLoc]
    /\ resp = [p \in Procs |-> NoResp]
    /\ inserted = <<>>
    /\ evicted = {}
    /\ used = [k \in {"msgs", "reacts", "ticks"} |-> 0]
    /\ faults = [k \in FaultKinds |-> 0]

\* one call of Postgres.ListMessages: what it was called with, what it returned
StoreList(p, limit, offset, exclude, tie) ==
    /\ pc[p] = "idle"
    /\ LET r == PgListMessages(db_msgs, db_reacts, limit, offset, exclude, tie)
       IN  resp' = [resp EXCEPT ![p] =
                      [NoResp EXCEPT !.op = "DB.ListMessages",
                                     !.arg = [limit |-> limit, offset |-> offset,
                                              exclude |-> exclude],
                                     !.status = IF r.err THEN StatusInternalServerError
                                                ELSE StatusOK,
                                     !.cold = r.msgs]]
    /\ pc' = [pc EXCEPT ![p] = "done"]
    /\ UNCHANGED <<stores, clock, skew, loc, inserted, evicted, used, faults>>

StoreNext ==
    \E p \in StoreProcs :
        \/ \E limit \in 1 .. StoreMaxLimit, offset \in 0 .. StoreMaxOffset,
              exclude \in StoreExcludes, tie \in Ties :
                StoreList(p, limit, offset, exclude, tie)
        \/ Finish(p)

StoreSpec == StoreInit /\ [][StoreNext]_vars

\* =================================================================== claims
IndexIds == {e.member : e \in zset}
Evicting == {p \in Procs : pc[p] \in {"ev_read", "ev_zrem", "ev_del", "ev_delr"}}
DbMsg(id) == CHOOSE m \in db_msgs : m.id = id
DbIds == {m.id : m \in db_msgs}

\* (created_at, id) of a precedes that of b
OlderThan(a, b) ==
    \/ DbMsg(a).created_at < DbMsg(b).created_at
    \/ DbMsg(a).created_at = DbMsg(b).created_at /\ a < b

LastN(sq, n) == SubSeq(sq, Len(sq) - n + 1, Len(sq))

Listed(p) == pc[p] = "done" /\ resp[p].op = "listMessages" /\ resp[p].status = StatusOK

\* the rows of the store when the listing of resp[p] queried it
SeenMsgs(p) == {m \in db_msgs : m.id <= resp[p].seen}

NewestFirst(msgs) ==
    \A i, j \in DOMAIN msgs : i < j => msgs[i].created_at >= msgs[j].created_at

NoDuplicateIds(msgs) ==
    \A i, j \in DOMAIN msgs : i # j => msgs[i].id # msgs[j].id

\* C3: every successful listing, of any page, is the hot snapshot unchanged
\* followed by the store segment; the store segment holds the rows at ranks
\* offset+1 .. offset+pageSize, offset = pageSize*(page-1), of the store's rows
\* whose id is not an id of that hot snapshot, newest first.
C3_HotThenStoreSegment ==
    \A p \in Procs : Listed(p) =>
        LET hot == resp[p].hot
            cold == resp[p].cold
            offset == pageSize * (resp[p].arg - 1)
            rest == {m \in SeenMsgs(p) : m.id \notin Range(IDs(hot))}
        IN  /\ resp[p].body.messages = hot \o cold
            /\ Len(cold) = Max(0, Min(pageSize, Cardinality(rest) - offset))
            /\ NoDuplicateIds(cold)
            /\ NewestFirst(cold)
            /\ \A i \in DOMAIN cold :
                  /\ \E m \in rest : m.id = cold[i].id /\ m.created_at = cold[i].created_at
                  /\ Cardinality({m \in rest : m.created_at > cold[i].created_at})
                        <= offset + i - 1
                  /\ Cardinality({m \in rest : m.created_at >= cold[i].created_at})
                        >= offset + i

\* C3 witness: a listing of page 2 answered with a hot window and a store segment
C3_Witness ==
    \E p \in Procs :
        /\ Listed(p)
        /\ resp[p].arg = 2
        /\ Len(resp[p].hot) = maxSize
        /\ Len(resp[p].cold) > 0
        /\ Len(resp[p].body.messages) = Len(resp[p].hot) + Len(resp[p].cold)

\* C4 as stated: with no request in flight, the cache holding h messages and the
\* store m further ones, page 1 has min(h + pageSize, h + m) messages and no
\* identifier twice.
C4_Original ==
    Quiescent =>
        \A tie \in Ties :
            LET pg == ListPage(1, tie)
                h == Cardinality(IndexIds)
                m == Cardinality(DbIds \ IndexIds)
            IN  ~pg.err =>
                    /\ Len(pg.msgs) = Min(h + pageSize, h + m)
                    /\ NoDuplicateIds(pg.msgs)

\* C4 amended: with no request in flight, h the number of messages the cache
\* lists (its entries whose timestamp is not later than the reader's clock) and
\* m the number of stored messages not among them, page 1 has
\* min(h + pageSize, h + m) messages and no identifier twice.
C4_PageOneSize ==
    Quiescent =>
        \A tie \in Ties :
            LET pg == ListPage(1, tie)
                h == Len(CacheList)
                m == Cardinality(DbIds \ Range(IDs(CacheList)))
            IN  ~pg.err =>
                    /\ Len(pg.msgs) = Min(h + pageSize, h + m)
                    /\ NoDuplicateIds(pg.msgs)

\* C4 witness: a full hot window and more than pageSize further stored messages
C4_Witness ==
    /\ Quiescent
    /\ Len(CacheList) = maxSize
    /\ Cardinality(DbIds \ Range(IDs(CacheList))) > pageSize
    /\ ~ListPage(1, 1).err
    /\ Len(ListPage(1, 1).msgs) = maxSize + pageSize

\* C5: every page listMessages returns is in descending order of creation time
\* from its first message to its last
C5_NewestFirstAcrossPage ==
    \A p \in Procs : Listed(p) => NewestFirst(resp[p].body.messages)

\* the messages evictOldest removed that are in the store and not listed hot
EvictedCold == (evicted \cap DbIds) \ Range(IDs(CacheList))

\* C6 as stated: with no request in flight, page 1 holds every message that was
\* evicted from the cache and is in the store
C6_Original ==
    Quiescent =>
        \A tie \in Ties :
            LET pg == ListPage(1, tie)
            IN  ~pg.err => EvictedCold \subseteq Range(IDs(pg.msgs))

\* C6 amended: with no request in flight, a successful page 1 holds an evicted
\* message of the store whenever fewer than pageSize other stored messages
\* outside the hot window are as new as it or newer; older evicted messages are
\* on later pages.
C6_EvictedWithinFirstPage ==
    Quiescent =>
        \A tie \in Ties :
            LET pg == ListPage(1, tie)
                cold == DbIds \ Range(IDs(pg.hot))
            IN  ~pg.err =>
                    \A id \in EvictedCold :
                        Cardinality({o \in cold \ {id} :
                                        DbMsg(o).created_at >= DbMsg(id).created_at}) < pageSize
                        => id \in Range(IDs(pg.cold))

\* C6 witness: a message evicted during the run is on page 1, an older evicted
\* one is not
C6_Witness ==
    /\ Quiescent
    /\ ~ListPage(1, 1).err
    /\ InitFull - maxSize + 1 \in EvictedCold
    /\ InitFull - maxSize + 1 \in Range(IDs(ListPage(1, 1).cold))
    /\ 1 \in EvictedCold
    /\ 1 \notin Range(IDs(ListPage(1, 1).msgs))

\* C7: in every reachable state every key of the message index has a message
\* hash, and every key of a reaction index has a reaction hash
C7_IndexedKeysHaveRows ==
    /\ \A e \in zset : \E r \in rows : r.id = e.member
    /\ \A e \in rzset : \E r \in rrows : r.msg = e.msg /\ r.row.id = e.member

\* the step of handler p in which Cache.InsertMessage returns an error
CacheMessageFails(p) ==
    /\ pc[p] \in {"im_tx", "ev_read"}
    /\ pc'[p] # pc[p]
    /\ faults' # faults

\* C8: when Cache.InsertMessage fails after the store insert succeeded,
\* createMessage answers 201 with the stored message, the failure is logged,
\* and the message stays in the store (no step removes a stored message)
C8_CacheFailureStillCreated ==
    [][/\ db_msgs \subseteq db_msgs'
       /\ \A p \in Procs :
            CacheMessageFails(p) =>
                /\ pc'[p] = "done"
                /\ resp'[p].op = "createMessage"
                /\ resp'[p].status = StatusCreated
                /\ "Could not cache message" \in resp'[p].log
                /\ \E m \in db_msgs' :
                     /\ m.id = loc[p].cur.id
                     /\ resp'[p].body = [id |-> m.id, text |-> m.message_text,
                                         user_id |-> m.user_id,
                                         created_at |-> FormatRFC1123(m.created_at)]]_vars

\* C8 witness: a createMessage answered 201 after its cache call failed, the
\* message in the store and not in the cache
C8_Witness ==
    \E p \in Procs :
        /\ pc[p] = "done"
        /\ resp[p].op = "createMessage"
        /\ resp[p].status = StatusCreated
        /\ "Could not cache message" \in resp[p].log
        /\ faults["tx"] = 1
        /\ resp[p].body.id \in DbIds
        /\ resp[p].body.id \notin IndexIds

\* the step of handler p in which Cache.InsertReaction returns an error
CacheReactionFails(p) ==
    /\ pc[p] = "ir_tx"
    /\ pc'[p] # pc[p]
    /\ faults' # faults

\* C9: when Cache.InsertReaction fails after the store insert succeeded,
\* createReaction answers 500, and the reaction stays in the store
C9_CacheFailureIsServerError ==
    [][/\ db_reacts \subseteq db_reacts'
       /\ \A p \in Procs :
            CacheReactionFails(p) =>
                /\ pc'[p] = "done"
                /\ resp'[p].op = "createReaction"
                /\ resp'[p].status = StatusInternalServerError
                /\ \E r \in db_reacts' : r.id = loc[p].cur.id]_vars

\* C9 witness: a createReaction answered 500 while its reaction is in the store
\* and not in the cache
C9_Witness ==
    \E p \in Procs :
        /\ pc[p] = "done"
        /\ resp[p].op = "createReaction"
        /\ resp[p].status = StatusInternalServerError
        /\ "Could not cache reaction" \in resp[p].log
        /\ db_reacts # {}
        /\ rrows = {}

\* the step of handler p in which DB.InsertMessage or DB.InsertReaction
\* returns an error: an injected failure, or a reaction to a message the store
\* does not hold
StoreInsertFails(p) ==
    /\ pc[p] = "idle"
    /\ pc'[p] # "idle"
    /\ \/ faults'["db"] # faults["db"]
       \/ used'["reacts"] # used["reacts"] /\ db_reacts' = db_reacts

\* C10: when the store insert of createMessage or createReaction fails, the
\* handler answers 500 and returns: the step leaves the cache as it was and no
\* later step of the request exists
C10_StoreFailureLeavesCache ==
    [][\A p \in Procs :
         StoreInsertFails(p) =>
            /\ pc'[p] = "done"
            /\ resp'[p].op \in {"createMessage", "createReaction"}
            /\ resp'[p].status = StatusInternalServerError
            /\ cache' = cache
            /\ stores' = stores]_vars

\* C10 witness: a createMessage and a createReaction answered 500 on a failed
\* store insert
C10_Witness ==
    /\ \E p \in Procs :
        /\ pc[p] = "done"
        /\ resp[p].op = "createMessage"
        /\ resp[p].status = StatusInternalServerError
        /\ faults["db"] = 1
    /\ \E p \in Procs :
        /\ pc[p] = "done"
        /\ resp[p].op = "createReaction"
        /\ resp[p].status = StatusInternalServerError
        /\ db_reacts = {}

\* the step of handler p in which Cache.ListMessages returns an error
CacheReadFails(p) ==
    /\ pc[p] \in {"idle", "lm_resolve"}
    /\ pc'[p] # pc[p]
    /\ faults'["cacheread"] # faults["cacheread"]

\* the step of handler p in which DB.ListMessages returns an error: an injected
\* failure, or a query the store rejects
StoreReadFails(p) ==
    /\ pc[p] = "lm_db"
    /\ pc'[p] # pc[p]
    /\ \/ faults'["db"] # faults["db"]
       \/ DBSegment(loc[p].hot, loc[p].arg, 1).err

\* C11: when the cache read or the store read of listMessages fails, the
\* handler answers at once with one failure (500, an error body, no messages):
\* after a failed cache read the store is not queried, after a failed store read
\* the hot messages are not returned
C11_ListingFailsWhole ==
    [][\A p \in Procs :
         (CacheReadFails(p) \/ StoreReadFails(p)) =>
            /\ pc'[p] = "done"
            /\ resp'[p].op = "listMessages"
            /\ resp'[p].status = StatusInternalServerError
            /\ resp'[p].body = [error |-> "Could not list messages"]
            /\ resp'[p].hot = <<>> /\ resp'[p].cold = <<>>
            /\ stores' = stores]_vars

\* C11 witness: a listing answered 500 on a failed cache read while cache and
\* store hold messages
C11_Witness ==
    \E p \in Procs :
        /\ pc[p] = "done"
        /\ resp[p].op = "listMessages"
        /\ resp[p].status = StatusInternalServerError
        /\ faults["cacheread"] = 1
        /\ zset # {}
        /\ db_msgs # {}

\* neither the cache nor the store holds anything
EmptySystem ==
    /\ db_msgs = {} /\ db_reacts = {}
    /\ zset = {} /\ rows = {} /\ rzset = {} /\ rrows = {}

\* C12: on an empty system (no cache entry, no store row) a listing of a page
\* >= 1 in which no call fails answers 200 with the empty sequence of messages
C12_EmptySystemListsEmpty ==
    [][/\ \A p \in Procs :
            (/\ pc[p] = "lm_db"
             /\ pc'[p] # pc[p]
             /\ faults' = faults
             /\ loc[p].arg >= 1
             /\ EmptySystem)
            => /\ pc'[p] = "done"
               /\ resp'[p].status = StatusOK
               /\ resp'[p].body = [messages |-> <<>>]
       /\ EmptySystem =>
            \A page \in Pages \ {0} : \A tie \in Ties :
                ListPage(page, tie) = [err |-> FALSE, hot |-> <<>>, cold |-> <<>>,
                                       msgs |-> <<>>]]_vars

\* C12 witness: a listing of the empty system answered 200 with no messages
C12_Witness ==
    \E p \in Procs :
        /\ Listed(p)
        /\ EmptySystem
        /\ resp[p].arg >= 1
        /\ resp[p].body.messages = <<>>

\* a step of listMessages served by handler p
ListingStep(p) ==
    \/ pc[p] = "idle" /\ pc'[p] = "lm_resolve"
    \/ pc[p] = "idle" /\ pc'[p] = "done" /\ resp'[p].op = "listMessages"
    \/ pc[p] \in {"lm_resolve", "lm_db"} /\ pc'[p] # pc[p]

\* no cached message and no cached reaction is stamped later than the reader's
\* clock
AllVisible ==
    /\ \A e \in zset : e.score <= clock
    /\ \A e \in rzset : e.score <= clock

KeysScopedTo(z, rws, rz, rr, id) ==
    {e \in z : e.member = id} \cup {r \in rws : r.id = id}
        \cup {e \in rz : e.msg = id} \cup {r \in rr : r.msg = id}

\* C14: when evictOldest has finished with a key, every command having
\* succeeded, no key scoped to that message remains in the cache: index slot,
\* message hash, reaction index and reaction hashes are all gone
C14_EvictionRemovesAllKeys ==
    [][\A p \in Procs :
         (/\ pc[p] = "ev_delr"
          /\ pc'[p] # pc[p]
          /\ FaultTotal = 0
          /\ faults' = faults)
         => KeysScopedTo(zset', rows', rzset', rrows', Head(loc[p].victims)) = {}]_vars

\* the reaction index of message id, and the creation time it records for
\* reaction rid
SubIndex(id) == {e \in rzset : e.msg = id}
ReactionTime(id, rid) == (CHOOSE e \in SubIndex(id) : e.member = rid).score

\* the reactions l are all the reactions of S, each once, in ascending order of
\* creation time
AscendingListOf(l, id, S) ==
    /\ Len(l) = Cardinality(S)
    /\ {l[i].id : i \in DOMAIN l} = {e.member : e \in S}
    /\ \A i, j \in DOMAIN l :
          ReactionTime(id, l[i].id) < ReactionTime(id, l[j].id) => i < j

C16_ReactionForAbsentMessage ==
    [][\A p \in Procs :
         /\ pc[p] = "ir_tx" => ENABLED IR_Tx(p)
         /\ (pc[p] = "ir_tx" /\ pc'[p] # pc[p] /\ faults' = faults) =>
               /\ pc'[p] = "done"
               /\ resp'[p].op = "createReaction"
               /\ resp'[p].status = StatusCreated
               /\ resp'[p].body.id = loc[p].cur.id
               /\ \E r \in rrows' : r.msg = loc[p].arg /\ r.row.id = loc[p].cur.id
               /\ \E e \in rzset' : /\ e.msg = loc[p].arg
                                    /\ e.member = loc[p].cur.id
                                    /\ e.score = loc[p].cur.created_at]_vars

\* C16 witness: createReaction answered 201 for a stored message the cache does
\* not hold, the reaction written to the cache
C16_Witness ==
    \E p \in Procs :
        /\ pc[p] = "done"
        /\ resp[p].op = "createReaction"
        /\ resp[p].status = StatusCreated
        /\ resp[p].arg \in DbIds \ IndexIds
        /\ \A r \in rows : r.id # resp[p].arg
        /\ \E r \in rrows : r.msg = resp[p].arg /\ r.row.id = resp[p].body.id

\* C17: the store is written before the cache: a handler about to write the
\* cache holds a record the store has committed, and everything in the cache
\* (index entries, message hashes, reaction index entries, reaction hashes)
\* carries the identifier of a stored record, index scores and message hashes
\* its stored creation time
C17_StoreBeforeCache ==
    /\ \A p \in Procs :
          /\ pc[p] = "im_tx" =>
                \E m \in db_msgs : PgAPIMessage(m, <<>>) = loc[p].cur
          /\ pc[p] = "ir_tx" =>
                \E r \in db_reacts : PgAPIReaction(r) = loc[p].cur
    /\ \A e \in zset :
          \E m \in db_msgs : m.id = e.member /\ m.created_at = e.score
    /\ \A r \in rows :
          \E m \in db_msgs : /\ m.id = r.id
                             /\ m.created_at = r.created_at
                             /\ m.message_text = r.text
                             /\ m.user_id = r.user_id
    /\ \A e \in rzset :
          \E r \in db_reacts : /\ r.id = e.member
                               /\ r.message_id = e.msg
                               /\ r.created_at = e.score
    /\ \A x \in rrows :
          \E r \in db_reacts : r.id = x.row.id /\ r.message_id = x.msg

\* C17 witness: the message created last and a reaction are both in the cache
C17_Witness ==
    /\ used["msgs"] >= 1
    /\ used["reacts"] >= 1
    /\ \E e \in zset : e.member = Cardinality(db_msgs)
    /\ \E r \in rows : r.id = Cardinality(db_msgs)
    /\ rzset # {}
    /\ rrows # {}

\* C18: no step removes or changes a row of the store: every message and
\* every reaction the store holds is still there, unchanged, in the next state,
\* whatever failed after its commit
C18_StoreRowsStay ==
    [][/\ \A m \in db_msgs : m \in db_msgs'
       /\ \A r \in db_reacts : r \in db_reacts']_vars

\* C18 witness: requests are over, a cache mirror failed, and the store holds
\* the message or the reaction that was never mirrored
C18_Witness ==
    /\ Quiescent
    /\ faults["tx"] = 1
    /\ \/ \E m \in db_msgs : m.id \notin Range(inserted)
       \/ \E r \in db_reacts : \A x \in rrows : x.row.id # r.id

\* the eviction run of insert number n is about to remove the oldest key of
\* an index that holds more than maxSize + 1 keys, an earlier run having failed;
\* it has left no key behind and no command of it will fail
SurplusRunStarts(n) ==
    /\ pc[1] = "ev_zrem"
    /\ Len(inserted) = n
    /\ ~MayFail
    /\ Cardinality(zset) > maxSize + 1
    /\ Head(loc[1].victims) = ZMin(zset).member

\* the run of insert number n is over and the index holds at most maxSize keys
RunEndedWithin(n) ==
    /\ pc[1] = "done"
    /\ Len(inserted) = n
    /\ Cardinality(zset) <= maxSize

\* C19: when an earlier eviction failed part-way and left more than maxSize
\* keys, the next eviction run in which every command succeeds ends with at
\* most maxSize keys in the index
C19_SelfCorrecting ==
    \A n \in (InitFull + 1) .. (InitFull + CacheMaxMsgs) :
        SurplusRunStarts(n) ~> RunEndedWithin(n)

\* C19 witness: a ZREM of the first insert's eviction failed and left
\* maxSize + 1 keys; the second insert's eviction has run and the index is
\* back at maxSize
C19_Witness ==
    /\ pc[1] = "done"
    /\ faults["zrem"] = 1
    /\ Len(inserted) = InitFull + 2
    /\ Cardinality(zset) = maxSize

\* e has maxSize entries of the index above it: it is not one of the maxSize
\* highest-scored entries
Outranked(z, e) == Cardinality({f \in z : ZLess(e, f)}) >= maxSize
Surplus(z) == {e \in z : Outranked(z, e)}

\* a command of evictOldest is answered to p in this step
EvictCommand(p) ==
    /\ pc[p] \in {"ev_read", "ev_zrem", "ev_del", "ev_delr"}
    /\ pc'[p] # pc[p]

\* the keys a successful ZRANGE of evictOldest hands to the loop
KeysRead(p) == IF pc'[p] = "ev_zrem" THEN loc'[p].victims ELSE <<>>

\* the ZRANGE of evictOldest returns the keys below the maxSize highest-scored
\* ones, max(0, cardinality - maxSize) of them, and removes nothing itself
ReadsTheSurplus(p) ==
    (pc[p] = "ev_read" /\ faults' = faults)
    => /\ Len(KeysRead(p)) = Max(0, Cardinality(zset) - maxSize)
       /\ Range(KeysRead(p)) = {e.member : e \in Surplus(zset)}
       /\ Cardinality(zset) <= maxSize => pc'[p] = "done"
       /\ zset' = zset

\* the maxSize highest-scored entries and their hashes are as they were: every
\* entry that left the index and every hash that changed was below them
KeepsTheNewest ==
    /\ \A e \in zset \ zset' : Outranked(zset, e)
    /\ \A r \in (rows \ rows') \cup (rows' \ rows) :
          \A e \in zset : e.member = r.id => Outranked(zset, e)

\* C20 as stated: a run of evictOldest reads the max(0, cardinality - maxSize)
\* lowest-scored keys, nothing at maxSize or fewer, removes every one of them
\* from the index, and leaves the maxSize highest-scored entries and their
\* hashes unchanged.
C20_Original ==
    [][\A p \in Procs : EvictCommand(p) =>
          /\ ReadsTheSurplus(p)
          /\ pc[p] = "ev_zrem" =>
                /\ zset' = ZRem(zset, Head(loc[p].victims))
                /\ Cardinality(zset') = Cardinality(zset) - 1
          /\ KeepsTheNewest]_vars

\* C20 amended: a run of evictOldest reads the max(0, cardinality - maxSize)
\* lowest-scored keys, nothing at maxSize or fewer; it removes from the index
\* no entry but those, one key per ZREM, and a ZREM that succeeds leaves its
\* key out of the index; a ZREM that fails, or whose key another run has
\* removed already, removes nothing, so the run may remove fewer entries than
\* it read. In every case the maxSize highest-scored entries and their hashes
\* are left unchanged.
C20_EvictsOnlySurplus ==
    [][\A p \in Procs : EvictCommand(p) =>
          /\ ReadsTheSurplus(p)
          /\ pc[p] # "ev_read" =>
                /\ zset' \subseteq zset
                /\ \A e \in zset \ zset' :
                      e \in Surplus(zset) /\ e.member = Head(loc[p].victims)
          /\ (pc[p] = "ev_zrem" /\ faults' = faults) =>
                Head(loc[p].victims) \notin {e.member : e \in zset'}
          /\ KeepsTheNewest]_vars

\* C20 witness: with every command succeeding, a ZREM of evictOldest has just
\* taken its key out of the index, which holds the maxSize newest entries
C20_Witness ==
    \E p \in Procs :
        /\ pc[p] = "ev_del"
        /\ FaultTotal = 0
        /\ Head(loc[p].victims) \in evicted
        /\ Head(loc[p].victims) \notin IndexIds
        /\ Cardinality(zset) = maxSize

\* the messages Redis.ListMessages has returned to the listMessages of p
ListReturned(p) == IF pc[p] = "lm_db" THEN loc[p].hot ELSE <<>>

\* msg is a message that was inserted, with the attributes it was inserted with
Resolved(msg) ==
    /\ msg.id # EmptyID
    /\ \E m \in db_msgs :
          /\ m.id = msg.id
          /\ m.message_text = msg.text
          /\ m.user_id = msg.user_id
          /\ m.created_at = msg.created_at

\* C21: under any interleaving of Redis.ListMessages with a concurrent insert
\* and its eviction, every message Redis.ListMessages returns is a fully
\* resolved message that was inserted, never one with an empty identifier.
C21_ListReturnsResolved ==
    \A p \in Procs :
        \A i \in DOMAIN ListReturned(p) : Resolved(ListReturned(p)[i])

\* an identifier is in both segments
InBothSegments(hot, cold) ==
    \E i \in DOMAIN hot, j \in DOMAIN cold : hot[i].id = cold[j].id

\* p has read the cache and is about to query the store, and the cache holds a
\* stored message that the exclusion set of p misses
MissedByExclusion(p) ==
    /\ pc[p] = "lm_db"
    /\ \E e \in zset : e.member \in DbIds /\ e.member \notin Range(IDs(loc[p].hot))

\* C22 as stated: when a message is in the cache and missing from the
\* exclusion set of a listing, the store query of that listing can return a
\* page holding one identifier in the hot segment and in the store segment.
C22_Original ==
    \A p \in Readers :
        MissedByExclusion(p) =>
            \E tie \in Ties :
                LET r == DBSegment(loc[p].hot, loc[p].arg, tie)
                IN  ~r.err /\ InBothSegments(loc[p].hot, r.msgs)

\* C22 amended: the cache read of a listing completes before its store query
\* starts, and a message inserted into the cache in between is missing from
\* the exclusion set; it then appears in the store segment only: no page holds
\* the same identifier in the hot segment and in the store segment, since the
\* store excludes exactly the identifiers of the hot segment.
C22_SegmentsDisjoint ==
    \A p \in Procs : Listed(p) =>
        /\ ~InBothSegments(resp[p].hot, resp[p].cold)
        /\ NoDuplicateIds(resp[p].body.messages)

\* C22 witness: a message was inserted into the cache after the cache read of
\* a listing; the page shows it in the store segment and not in the hot one
C22_Witness ==
    \E p \in Procs :
        /\ Listed(p)
        /\ Len(resp[p].hot) = maxSize
        /\ \E j \in DOMAIN resp[p].cold :
              /\ resp[p].cold[j].id \in IndexIds
              /\ resp[p].cold[j].id \in Range(inserted)
              /\ resp[p].cold[j].id > InitFull

\* Postgres.ListMessages has returned its rows to p
StoreListed(p) ==
    pc[p] = "done" /\ resp[p].op = "DB.ListMessages" /\ resp[p].status = StatusOK

\* C23: Postgres.ListMessages never returns a message whose identifier is in
\* the exclusion list, and cuts the page after the exclusion: the result is
\* the elements offset .. offset+limit-1 of the stored messages outside the
\* exclusion list, newest first, whatever the number of excluded rows.
C23_ExclusionBeforeLimit ==
    \A p \in StoreProcs : StoreListed(p) =>
        LET limit == resp[p].arg.limit
            offset == resp[p].arg.offset
            out == resp[p].cold
            rest == {m \in db_msgs : m.id \notin Range(resp[p].arg.exclude)}
        IN  /\ \A i \in DOMAIN out : out[i].id \notin Range(resp[p].arg.exclude)
            /\ Len(out) = Max(0, Min(limit, Cardinality(rest) - offset))
            /\ NoDuplicateIds(out)
            /\ NewestFirst(out)
            /\ \A i \in DOMAIN out :
                  /\ \E m \in rest : m.id = out[i].id /\ m.created_at = out[i].created_at
                  /\ Cardinality({m \in rest : m.created_at > out[i].created_at})
                        <= offset + i - 1
                  /\ Cardinality({m \in rest : m.created_at >= out[i].created_at})
                        >= offset + i

\* C23 witness: rows newer than every returned row were excluded, and the
\* page is full all the same
C23_Witness ==
    \E p \in StoreProcs :
        /\ StoreListed(p)
        /\ resp[p].arg.limit > 1
        /\ Len(resp[p].cold) = resp[p].arg.limit
        /\ \E m \in db_msgs :
              /\ m.id \in Range(resp[p].arg.exclude)
              /\ \A i \in DOMAIN resp[p].cold : m.created_at > resp[p].cold[i].created_at

\* Redis.InsertReaction returns to p in this step, with nil or with an error
InsertReactionReturns(p) == pc[p] = "ir_tx" /\ pc'[p] # pc[p]

\* the reaction keys of the messages other than msgId are as they were
OtherReactionsKept(msgId) ==
    /\ {e \in rzset' : e.msg # msgId} = {e \in rzset : e.msg # msgId}
    /\ {r \in rrows' : r.msg # msgId} = {r \in rrows : r.msg # msgId}

\* C24: Redis.InsertReaction changes only the reaction sub-index and the
\* reaction hashes of the message key it is given: it triggers no eviction and
\* leaves the message index, every message hash and the reactions of every
\* other message unchanged; when it returns nil the reaction is in the
\* sub-index and in a hash of that message.
C24_InsertReactionFrame ==
    [][\A p \in CacheProcs : InsertReactionReturns(p) =>
          /\ zset' = zset
          /\ rows' = rows
          /\ evicted' = evicted
          /\ pc'[p] = "done"
          /\ OtherReactionsKept(loc[p].arg)
          /\ \A e \in rzset : e.msg = loc[p].arg /\ e.member # loc[p].cur.id => e \in rzset'
          /\ \A r \in rrows : r.msg = loc[p].arg /\ r.row.id # loc[p].cur.id => r \in rrows'
          /\ faults' = faults =>
                /\ \E e \in rzset' : e.msg = loc[p].arg /\ e.member = loc[p].cur.id
                /\ \E r \in rrows' : r.msg = loc[p].arg /\ r.row.id = loc[p].cur.id]_vars

\* C24 witness: a reaction has been inserted for one message while the cache
\* holds messages and the reactions of another message
C24_Witness ==
    /\ pc[1] = "done"
    /\ resp[1].op = "createReaction"
    /\ resp[1].status = StatusCreated
    /\ Cardinality(zset) >= maxSize
    /\ \E e \in rzset : e.msg = resp[1].arg /\ e.member = resp[1].body.id
    /\ \E e \in rzset : e.msg # resp[1].arg

\* the ZREVRANGEBYSCORE of Redis.ListMessages is answered to p in this step
ListReadsIndex(p) == pc[p] = "idle" /\ pc'[p] = "lm_resolve"

\* the entries of the index a reader whose time.Now() is now may see
VisibleAt(now) == {e \in zset : e.score <= now}

\* C25: Redis.ListMessages returns the entries of the index whose score is
\* not later than the reader's time.Now(), all of them, highest score first,
\* and no entry with a later score; evictOldest counts every entry, those
\* with a later score included.
C25_BoundedByNow ==
    [][/\ \A p \in Readers : ListReadsIndex(p) =>
             LET keys == loc'[p].keys
             IN  /\ Range(keys) = {e.member : e \in VisibleAt(clock)}
                 /\ Len(keys) = Cardinality(VisibleAt(clock))
                 /\ \A i, j \in DOMAIN keys : i < j =>
                       \E a, b \in zset : /\ a.member = keys[i]
                                          /\ b.member = keys[j]
                                          /\ ZLess(b, a)
       /\ \A p \in Readers : (pc[p] = "lm_resolve" /\ pc'[p] = "lm_db") =>
             Len(loc'[p].hot) = Len(loc[p].keys)
       /\ \A p \in Procs : (pc[p] = "ev_read" /\ pc'[p] # pc[p] /\ faults' = faults) =>
             Len(KeysRead(p)) = Max(0, Cardinality(zset) - maxSize)]_vars

\* C25 witness: the index holds maxSize entries, one of them stamped later
\* than the reader's clock after its insert evicted an older one, and the
\* listing has read the other maxSize - 1 keys
C25_Witness ==
    \E p \in Readers :
        /\ pc[p] = "lm_resolve"
        /\ Cardinality(zset) = maxSize
        /\ Len(loc[p].keys) = maxSize - 1
        /\ \E e \in zset :
              /\ e.score > clock
              /\ e.member \notin Range(loc[p].keys)
              /\ e.member \in Range(inserted)
        /\ InitFull - maxSize + 1 \in evicted

\* the handler of p is between the first call of a request and its response
Busy(p) == pc[p] \notin {"idle", "done"}

\* C26: no operation blocks: when the handlers are scheduled fairly and every
\* cache and store call returns, every createMessage, createReaction and
\* listMessages under way, every eviction run included, ends with a response,
\* and a request is answered once: a response is written only on the step
\* that ends the request.
C26_RequestsComplete ==
    /\ \A p \in Procs : Busy(p) ~> pc[p] = "done"
    /\ [][\A p \in Procs : resp'[p] # resp[p] =>
              \/ resp[p] = NoResp /\ pc[p] # "done" /\ pc'[p] = "done"
              \/ pc[p] = "done" /\ pc'[p] = "idle" /\ resp'[p] = NoResp]_vars

\* C26 witness: a listing and a concurrent creation whose eviction removed a
\* key have both been answered
C26_Witness ==
    /\ pc[1] = "done"
    /\ resp[1].op = "listMessages"
    /\ pc[2] = "done"
    /\ resp[2].op = "createMessage"
    /\ InitFull - maxSize + 1 \in evicted

\* every message Redis.InsertMessage committed that is no longer in the index
\* has maxSize committed messages or more above it in (created_at, id) order:
\* the maxSize highest-scored messages inserted so far are in the index
NewestInsertedKept ==
    LET ids == Range(inserted)
        ins == {m \in db_msgs : m.id \in ids}
        gone == {m \in ins : m.id \notin IndexIds}
    IN  \A x \in gone :
            Cardinality({y \in ins : (x.created_at < y.created_at) \/
                                      (x.created_at = y.created_at /\ x.id < y.id)})
               >= maxSize

C28_ErrorMeansNotCached ==
    \A p \in Procs :
        (/\ pc[p] = "done"
         /\ resp[p].op = "createMessage"
         /\ "Could not cache message" \in resp[p].log)
        => /\ resp[p].body.id \notin IndexIds
           /\ \A r \in rows : r.id # resp[p].body.id

\* C29: for every page number listMessages accepts, the offset it passes to
\* DB.ListMessages, pageSize*(page-1), is not negative.
C29_OffsetNotNegative ==
    \A p \in Procs : pc[p] = "lm_db" => pageSize * (loc[p].arg - 1) >= 0

\* C30: with no request in flight, the pages 1, 2, 3, ... requested in turn
\* cover the feed: every listing succeeds, every stored message outside the
\* hot window is in the store segment of exactly one page, and every stored
\* message is on some page; the store being free to order rows of equal
\* created_at differently from one query to the next.
C30_PagesCoverFeed ==
    Quiescent =>
        \A ties \in [FeedPages -> Ties] :
            LET pg(k) == ListPage(k, ties[k])
                hotIds == Range(IDs(CacheList))
            IN  /\ \A k \in FeedPages : ~pg(k).err /\ NoDuplicateIds(pg(k).cold)
                /\ \A m \in db_msgs : m.id \notin hotIds =>
                      Cardinality({k \in FeedPages :
                                     m.id \in Range(IDs(pg(k).cold))}) = 1
                /\ \A m \in db_msgs :
                      \E k \in FeedPages : m.id \in Range(IDs(pg(k).msgs))

\* ------------------------------------------------------------------- C31
\* the reactions a listed message carries, the reactions the store holds for a
\* message, by identifier
ListedReactionIds(msg) == {msg.reactions[i].id : i \in DOMAIN msg.reactions}
StoredReactionIds(id) == {r.id : r \in {x \in db_reacts : x.message_id = id}}

\* C31: in every quiescent state each message of the hot segment of ListPage
\* (the same for every page: what Redis.ListMessages returns) carries exactly
\* the reactions the store holds for it, also after a createReaction whose
\* Cache.InsertReaction failed.
C31_HotReactionsMatchStore ==
    Quiescent =>
        \A page \in Pages :
            LET hot == ListPage(page, 1).hot
            IN  \A i \in DOMAIN hot :
                    ListedReactionIds(hot[i]) = StoredReactionIds(hot[i].id)

\* ------------------------------------------------------------------- C32
\* handler p has just answered 201 to a createReaction: Redis.InsertReaction
\* returned nil for the reaction of the response body
ReactionCached(p) ==
    /\ pc[p] = "done"
    /\ resp[p].op = "createReaction"
    /\ resp[p].status = StatusCreated

\* the reactions of message msgId as Redis.ListMessages hands them out:
\* ListReactions, then reaction.APIReaction on every element
ReadBack(msgId) ==
    LET rcs == ListReactions(rzset, rrows, msgId, clock)
    IN  [j \in DOMAIN rcs |-> RedisAPIReaction(rcs[j])]

\* C32: a reaction written with Redis.InsertReaction and read back through
\* Redis.ListMessages is equal in every field (id, message id, type, score,
\* user id, creation timestamp) to the reaction that was inserted.
C32_ReactionRoundTrip ==
    \A p \in CacheProcs :
        ReactionCached(p) =>
            LET mr == resp[p].body
                back == ReadBack(mr.message_id)
            IN  \A j \in DOMAIN back : back[j].id = mr.id => back[j] = mr

====
